---- MODULE Spec2Model ----
(***************************************************************************)
(* A model of main.py: the Field / Phone / Birthday value holders, the     *)
(* Record of one contact, and the AddressBook mapping of names to records. *)
(*                                                                         *)
(* A Python str is a sequence of characters; a character is a TLA+ string  *)
(* naming it ("1", "a", "J").  "sup2" names U+00B2 SUPERSCRIPT TWO, a       *)
(* character for which str.isdigit() is true although it is not one of     *)
(* 0-9.  An Optional value is a sequence of zero (None) or one elements.   *)
(***************************************************************************)
EXTENDS Integers, Sequences, FiniteSets, TLC

VARIABLES
    phone,      \* one Phone object: <<>> before construction, else <<_value>>
    phoneOp,    \* the last call made on the Phone class / object
    phones,     \* Record.phones of one record: the values of its Phone objects
    recOp,      \* the last call made on the record
    today,      \* datetime.now().date()
    birthday,   \* Record.birthday of one record: None or the Birthday's value
    dtbOp,      \* the last Record(...) or days_to_birthday() call
    data,       \* AddressBook.data of each book: its entries in dict order
    expected,   \* history: per book and name, the record last added and not deleted
    bookOp,     \* the last call made on a book
    gen,        \* one generator made by AddressBook.__iter__
    files,      \* the file system: per file name, None or the bytes written
    saved       \* history: per file name, the mapping that was saved to it

phoneVars == <<phone, phoneOp>>
recVars == <<phones, recOp>>
bdayVars == <<today, birthday, dtbOp>>
bookVars == <<data, expected, bookOp, gen, files, saved>>
vars == <<phone, phoneOp, phones, recOp, today, birthday, dtbOp,
          data, expected, bookOp, gen, files, saved>>

(***************************************************************************)
(* Strings                                                                 *)
(***************************************************************************)
PhoneLen == 10
MaxPhones == 2

None == <<>>
Some(x) == <<x>>

AsciiDigits == {"0", "1", "2", "3", "4", "5", "6", "7", "8", "9"}

\* Characters c with c.isdigit(): the ASCII digits and every other character
\* of Unicode with the Digit property, of which "sup2" stands here.
UnicodeDigits == AsciiDigits \cup {"sup2"}

\* str.isdigit(): all characters are digits and there is at least one.
isdigit(s) == Len(s) > 0 /\ \A i \in 1..Len(s) : s[i] \in UnicodeDigits

\* n-1 copies of c followed by d.
Mix(c, d, n) == [i \in 1..n |-> IF i = n THEN d ELSE c]

PhoneChars == {"1", "2", "a", "sup2"}

\* The strings callers pass as phone numbers: too short, exact, too long,
\* with and without characters that are not 0-9.
PhoneInputs ==
    {Mix(c, d, n) : c \in {"1"}, d \in PhoneChars,
                    n \in (PhoneLen - 1)..(PhoneLen + 1)} \cup {<<>>}

(***************************************************************************)
(* Exceptions                                                              *)
(***************************************************************************)
ValueError(fmt, arg) == [kind |-> "ValueError", fmt |-> fmt, arg |-> arg]

PhoneFormatError == ValueError("Phone number must contain 10 digits.", <<>>)

PhoneNotFoundError(old_phone) ==
    ValueError("Phone number '{old_phone}' does not exist in this record.", old_phone)

(***************************************************************************)
(* Field and Phone                                                         *)
(***************************************************************************)
\* The test of Phone.__init__ and Phone.set_value that raises.
PhoneRejects(value) == Len(value) # PhoneLen \/ ~isdigit(value)

\* Field.value setter: stores whatever it is given.
Field_value_set(cur, new_value) == [value |-> Some(new_value), exc |-> None]

\* Phone(value): the new object's value, or the exception and no object.
Phone_init(value) ==
    IF PhoneRejects(value)
    THEN [value |-> None, exc |-> Some(PhoneFormatError)]
    ELSE Field_value_set(None, value)

\* p.set_value(new_value) on a Phone whose value is cur.
Phone_set_value(cur, new_value) ==
    IF PhoneRejects(new_value)
    THEN [value |-> Some(cur), exc |-> Some(PhoneFormatError)]
    ELSE Field_value_set(Some(cur), new_value)

NoCall == [op |-> "none", arg |-> <<>>, pre |-> <<>>, exc |-> None]

\* x = Phone(value); on an exception x keeps what it referred to.
PhoneConstruct(value) ==
    LET r == Phone_init(value) IN
    /\ phone' = IF r.exc = None THEN r.value ELSE phone
    /\ phoneOp' = [op |-> "Phone", arg |-> value, pre |-> phone, exc |-> r.exc]
    /\ UNCHANGED <<recVars, bdayVars, bookVars>>

\* x.set_value(new_value)
PhoneSetValue(new_value) ==
    /\ phone # None
    /\ LET r == Phone_set_value(phone[1], new_value) IN
       /\ phone' = r.value
       /\ phoneOp' = [op |-> "set_value", arg |-> new_value, pre |-> phone, exc |-> r.exc]
    /\ UNCHANGED <<recVars, bdayVars, bookVars>>

\* x.value = new_value, through the property Phone inherits from Field.
PhoneAssignValue(new_value) ==
    /\ phone # None
    /\ LET r == Field_value_set(phone, new_value) IN
       /\ phone' = r.value
       /\ phoneOp' = [op |-> "value", arg |-> new_value, pre |-> phone, exc |-> r.exc]
    /\ UNCHANGED <<recVars, bdayVars, bookVars>>

(***************************************************************************)
(* Record: add_phone, remove_phone, edit_phone                             *)
(***************************************************************************)
\* The index the loop "for p in self.phones: if str(p) == s" stops at; 0 if none.
FirstIndex(ps, s) ==
    IF \E i \in 1..Len(ps) : ps[i] = s
    THEN CHOOSE i \in 1..Len(ps) : ps[i] = s /\ \A j \in 1..(i - 1) : ps[j] # s
    ELSE 0

RemoveAt(ps, i) == [j \in 1..(Len(ps) - 1) |-> IF j < i THEN ps[j] ELSE ps[j + 1]]

add_phone(ps, p) ==
    LET r == Phone_init(p) IN
    IF r.exc # None THEN [phones |-> ps, exc |-> r.exc]
    ELSE [phones |-> Append(ps, r.value[1]), exc |-> None]

remove_phone(ps, p) ==
    LET i == FirstIndex(ps, p) IN
    [phones |-> IF i = 0 THEN ps ELSE RemoveAt(ps, i), exc |-> None]

edit_phone_SilentWhenMissing(ps, old_phone, new_phone) ==
    LET i == FirstIndex(ps, old_phone) IN
    IF i = 0 THEN [phones |-> ps, exc |-> None]
    ELSE LET r == Phone_set_value(ps[i], new_phone) IN
         [phones |-> [ps EXCEPT ![i] = r.value[1]], exc |-> r.exc]

edit_phone(ps, old_phone, new_phone) ==
    LET i == FirstIndex(ps, old_phone) IN
    IF i = 0 THEN [phones |-> ps, exc |-> Some(PhoneNotFoundError(old_phone))]
    ELSE LET r == Phone_set_value(ps[i], new_phone) IN
         [phones |-> [ps EXCEPT ![i] = r.value[1]], exc |-> r.exc]

NoRecCall == [op |-> "none", a1 |-> <<>>, a2 |-> <<>>, pre |-> <<>>, exc |-> None]

RecAddPhone(p) ==
    /\ Len(phones) < MaxPhones
    /\ LET r == add_phone(phones, p) IN
       /\ phones' = r.phones
       /\ recOp' = [op |-> "add_phone", a1 |-> p, a2 |-> <<>>, pre |-> phones, exc |-> r.exc]
    /\ UNCHANGED <<phoneVars, bdayVars, bookVars>>

RecRemovePhone(p) ==
    /\ LET r == remove_phone(phones, p) IN
       /\ phones' = r.phones
       /\ recOp' = [op |-> "remove_phone", a1 |-> p, a2 |-> <<>>, pre |-> phones, exc |-> r.exc]
    /\ UNCHANGED <<phoneVars, bdayVars, bookVars>>

RecEditPhone(old_phone, new_phone) ==
    /\ LET r == edit_phone(phones, old_phone, new_phone) IN
       /\ phones' = r.phones
       /\ recOp' = [op |-> "edit_phone", a1 |-> old_phone, a2 |-> new_phone,
                    pre |-> phones, exc |-> r.exc]
    /\ UNCHANGED <<phoneVars, bdayVars, bookVars>>

(***************************************************************************)
(* Dates: datetime.date as used by Birthday and Record.days_to_birthday    *)
(***************************************************************************)
BaseYear == 2023
NumYears == 2

Date(y, m, d) == [year |-> y, month |-> m, day |-> d]

IsLeap(y) == (y % 4 = 0 /\ y % 100 # 0) \/ y % 400 = 0

DaysInMonth(y, m) ==
    IF m = 2 THEN (IF IsLeap(y) THEN 29 ELSE 28)
    ELSE IF m \in {4, 6, 9, 11} THEN 30 ELSE 31

RECURSIVE DaysBeforeMonth(_, _)
DaysBeforeMonth(y, m) ==
    IF m = 1 THEN 0 ELSE DaysBeforeMonth(y, m - 1) + DaysInMonth(y, m - 1)

DaysBeforeYear(y) ==
    (y - 1) * 365 + ((y - 1) \div 4) - ((y - 1) \div 100) + ((y - 1) \div 400)

\* date.toordinal(); the difference of two dates is the difference of these.
Ordinal(dt) == DaysBeforeYear(dt.year) + DaysBeforeMonth(dt.year, dt.month) + dt.day

ValidDate(y, m, d) == y >= 1 /\ m \in 1..12 /\ d \in 1..DaysInMonth(y, m)

DigitChars == <<"0", "1", "2", "3", "4", "5", "6", "7", "8", "9">>
DigitChar(n) == DigitChars[n + 1]
DigitVal(c) == (CHOOSE i \in 1..10 : DigitChars[i] = c) - 1

\* The string "YYYY-MM-DD" of a year, month and day, zero-padded.
FormatDate(y, m, d) ==
    <<DigitChar((y \div 1000) % 10), DigitChar((y \div 100) % 10),
      DigitChar((y \div 10) % 10), DigitChar(y % 10), "-",
      DigitChar((m \div 10) % 10), DigitChar(m % 10), "-",
      DigitChar((d \div 10) % 10), DigitChar(d % 10)>>

\* datetime.strptime(s, "%Y-%m-%d").date() on a string of the zero-padded
\* shape (the only shape among BirthdayInputs): the date, or None where
\* strptime raises ValueError.
strptime(s) ==
    IF /\ Len(s) = 10
       /\ s[5] = "-" /\ s[8] = "-"
       /\ \A i \in {1, 2, 3, 4, 6, 7, 9, 10} : s[i] \in AsciiDigits
    THEN LET y == DigitVal(s[1]) * 1000 + DigitVal(s[2]) * 100
                  + DigitVal(s[3]) * 10 + DigitVal(s[4])
             m == DigitVal(s[6]) * 10 + DigitVal(s[7])
             d == DigitVal(s[9]) * 10 + DigitVal(s[10])
         IN IF ValidDate(y, m, d) THEN Some(Date(y, m, d)) ELSE None
    ELSE None

BirthdayFormatError == ValueError("Incorrect data format, should be YYYY-MM-DD", <<>>)
DayOutOfRangeError == ValueError("day is out of range for month", <<>>)

\* Birthday(value)
Birthday_init(value) ==
    IF strptime(value) = None
    THEN [value |-> None, exc |-> Some(BirthdayFormatError)]
    ELSE [value |-> Some(value), exc |-> None]

\* The birthday field set by Record(name, birthday): a falsy argument (None
\* or the empty string) gives no Birthday at all.
Record_init_birthday(arg) ==
    IF arg = <<>> THEN [value |-> None, exc |-> None] ELSE Birthday_init(arg)

\* date.replace(year=y): ValueError when the day does not exist in year y.
date_replace_year(dt, y) ==
    IF ValidDate(y, dt.month, dt.day)
    THEN [value |-> Some(Date(y, dt.month, dt.day)), exc |-> None]
    ELSE [value |-> None, exc |-> Some(DayOutOfRangeError)]

\* (a.month, a.day) > (b.month, b.day), the comparison of tuples.
MonthDayAfter(a, b) == a.month > b.month \/ (a.month = b.month /\ a.day > b.day)

\* Record.days_to_birthday(): ret is None where Python returns None or raises.
days_to_birthday(now, bday) ==
    IF bday = None THEN [ret |-> None, exc |-> None]
    ELSE LET birthday_date == strptime(bday[1])[1]
             next_birthday_year ==
                 IF MonthDayAfter(now, birthday_date) THEN now.year + 1 ELSE now.year
             replaced == date_replace_year(birthday_date, next_birthday_year)
         IN IF replaced.exc # None THEN [ret |-> None, exc |-> replaced.exc]
            ELSE [ret |-> Some(Ordinal(replaced.value[1]) - Ordinal(now)), exc |-> None]

BirthdayMonths == {1, 2, 3, 6, 12}
BirthdayDays == {1, 28, 29, 31}

\* The strings callers pass as birthdays: dates of a leap year, real and not
\* (02-31, 06-31), the end of February of a common year, and no birthday.
BirthdayInputs ==
    {FormatDate(2000, m, d) : m \in BirthdayMonths, d \in BirthdayDays}
        \cup {FormatDate(2001, 2, 28), FormatDate(2001, 2, 29), <<>>}

NoDtbCall == [op |-> "none", ret |-> None, exc |-> None]

\* r = Record(name, birthday): on an exception no record replaces the old one.
RecordConstruct(arg) ==
    LET r == Record_init_birthday(arg) IN
    /\ birthday' = IF r.exc = None THEN r.value ELSE birthday
    /\ dtbOp' = [op |-> "Record", ret |-> None, exc |-> r.exc]
    /\ UNCHANGED <<phoneVars, recVars, bookVars, today>>

RecDaysToBirthday ==
    LET r == days_to_birthday(today, birthday) IN
    /\ dtbOp' = [op |-> "days_to_birthday", ret |-> r.ret, exc |-> r.exc]
    /\ UNCHANGED <<phoneVars, recVars, bookVars, today, birthday>>

NextDay(dt) ==
    IF dt.day < DaysInMonth(dt.year, dt.month) THEN Date(dt.year, dt.month, dt.day + 1)
    ELSE IF dt.month < 12 THEN Date(dt.year, dt.month + 1, 1)
    ELSE Date(dt.year + 1, 1, 1)

\* The clock passes midnight.
Tick ==
    /\ NextDay(today).year < BaseYear + NumYears
    /\ today' = NextDay(today)
    /\ dtbOp' = NoDtbCall
    /\ UNCHANGED <<phoneVars, recVars, bookVars, birthday>>

(***************************************************************************)
(* AddressBook: the mapping, add_record, find, delete                      *)
(***************************************************************************)
Books == {"A", "B"}

Record(name, ps, bday) == [name |-> name, phones |-> ps, birthday |-> bday]

\* dict: a sequence of entries with distinct keys, in insertion order.
KeyIndex(d, k) ==
    IF \E i \in 1..Len(d) : d[i].key = k
    THEN CHOOSE i \in 1..Len(d) : d[i].key = k
    ELSE 0

\* d[k] = v: a new key goes last, a known key keeps its place.
dict_setitem(d, k, v) ==
    IF KeyIndex(d, k) = 0 THEN Append(d, [key |-> k, value |-> v])
    ELSE [d EXCEPT ![KeyIndex(d, k)] = [key |-> k, value |-> v]]

\* d.get(k)
dict_get(d, k) == IF KeyIndex(d, k) = 0 THEN None ELSE Some(d[KeyIndex(d, k)].value)

\* del d[k], for a key of d
dict_delitem(d, k) == RemoveAt(d, KeyIndex(d, k))

\* list(d.values())
dict_values(d) == [i \in 1..Len(d) |-> d[i].value]

add_record_KeepBoth(d, record) == Append(d, [key |-> record.name, value |-> record])

add_record(d, record) == dict_setitem(d, record.name, record)

find(d, name) == dict_get(d, name)

\* delete: printed is the notice written to standard output, if any.
delete(d, name) ==
    IF KeyIndex(d, name) # 0
    THEN [data |-> dict_delitem(d, name), printed |-> None, exc |-> None]
    ELSE [data |-> d,
          printed |-> Some([fmt |-> "The record '{name}' does not exist in the address book.",
                            arg |-> name]),
          exc |-> None]

NoBookCall == [op |-> "none", book |-> "A", arg |-> <<>>, pre |-> <<>>,
               result |-> <<>>, exc |-> None]

BookAddRecord(b, record) ==
    /\ data' = [data EXCEPT ![b] = add_record(data[b], record)]
    /\ expected' = [expected EXCEPT ![b][record.name] = Some(record)]
    /\ bookOp' = [op |-> "add_record", book |-> b, arg |-> record, pre |-> data[b],
                  result |-> <<>>, exc |-> None]
    /\ UNCHANGED <<phoneVars, recVars, bdayVars, gen, files, saved>>

BookFind(b, name) ==
    /\ bookOp' = [op |-> "find", book |-> b, arg |-> name, pre |-> data[b],
                  result |-> find(data[b], name), exc |-> None]
    /\ UNCHANGED <<phoneVars, recVars, bdayVars, data, expected, gen, files, saved>>

BookDelete(b, name) ==
    LET r == delete(data[b], name) IN
    /\ data' = [data EXCEPT ![b] = r.data]
    /\ expected' = [expected EXCEPT ![b][name] = None]
    /\ bookOp' = [op |-> "delete", book |-> b, arg |-> name, pre |-> data[b],
                  result |-> r.printed, exc |-> r.exc]
    /\ UNCHANGED <<phoneVars, recVars, bdayVars, gen, files, saved>>

(***************************************************************************)
(* AddressBook.search                                                      *)
(***************************************************************************)
UpperChars == <<"A", "B", "C", "D", "E", "F", "G", "H", "I", "J", "K", "L", "M",
                "N", "O", "P", "Q", "R", "S", "T", "U", "V", "W", "X", "Y", "Z">>
LowerChars == <<"a", "b", "c", "d", "e", "f", "g", "h", "i", "j", "k", "l", "m",
                "n", "o", "p", "q", "r", "s", "t", "u", "v", "w", "x", "y", "z">>

LowerChar(c) ==
    IF \E i \in 1..26 : UpperChars[i] = c
    THEN LowerChars[CHOOSE i \in 1..26 : UpperChars[i] = c]
    ELSE c

\* str.lower()
lower(s) == [i \in 1..Len(s) |-> LowerChar(s[i])]

\* sub in s, for two strings
Contains(s, sub) ==
    \E k \in 0..(Len(s) - Len(sub)) : \A j \in 1..Len(sub) : s[k + j] = sub[j]

search_record_CaseSensitiveName(record, value) ==
    (IF Contains(record.name, value) THEN <<record>> ELSE <<>>)
    \o (IF \E i \in 1..Len(record.phones) : Contains(record.phones[i], value)
        THEN <<record>> ELSE <<>>)

\* What one pass of the loop body of search appends for one record.
search_record(record, value) ==
    (IF Contains(lower(record.name), lower(value)) THEN <<record>> ELSE <<>>)
    \o (IF \E i \in 1..Len(record.phones) : Contains(record.phones[i], value)
        THEN <<record>> ELSE <<>>)

RECURSIVE search_from(_, _, _)
search_from(d, value, i) ==
    IF i > Len(d) THEN <<>>
    ELSE search_record(d[i].value, value) \o search_from(d, value, i + 1)

search(d, value) == search_from(d, value, 1)

BookSearch(b, value) ==
    /\ bookOp' = [op |-> "search", book |-> b, arg |-> value, pre |-> data[b],
                  result |-> search(data[b], value), exc |-> None]
    /\ UNCHANGED <<phoneVars, recVars, bdayVars, data, expected, gen, files, saved>>

John == <<"J", "o", "h", "n">>
Amy == <<"A", "m", "y">>
Al1 == <<"A", "l", "1">>
Ghost == <<"G", "h", "o", "s", "t">>
Phone1 == <<"1", "2", "3", "4", "5", "6", "7", "8", "9", "0">>
Phone2 == <<"0", "1", "2", "3", "4", "5", "6", "7", "8", "9">>

BookNames == {John, Amy, Al1, Ghost}

\* Records as callers build them with Record(...) and add_phone before
\* add_record.
BookRecords ==
    {Record(John, <<Phone1>>, None),
     Record(John, <<>>, Some(FormatDate(2000, 2, 29))),
     Record(Amy, <<Phone2>>, None),
     Record(Amy, <<Phone2, Phone1>>, None),
     Record(Al1, <<Phone1>>, None)}

SearchTerms ==
    {<<>>, <<"J", "o">>, <<"j", "o">>, <<"J", "O">>, <<"1", "2", "3">>, <<"1">>,
     <<"0", "1", "2", "3">>, <<"Y">>, <<"9", "0">>, <<"h", "n">>, <<"x">>, <<"a">>}

(***************************************************************************)
(* AddressBook.__iter__: a generator of chunks                             *)
(***************************************************************************)
DefaultChunk == 5
MaxChunk == 2
MaxIterNames == 3

\* records[a:b], a slice with 0 <= a <= b
Slice(s, a, b) == SubSeq(s, a + 1, IF b < Len(s) THEN b ELSE Len(s))

NoGen == [pc |-> "none", book |-> "A", chunk_size |-> 0, records |-> <<>>,
          current |-> 0, out |-> <<>>, start |-> <<>>]

\* book.__iter__(chunk_size): the generator object; its body has not run.
iter_create(b, chunk_size) == [NoGen EXCEPT !.pc = "created", !.book = b,
                                            !.chunk_size = chunk_size]

iter_next_Overlapping(g, d) ==
    LET records == IF g.pc = "created" THEN dict_values(d) ELSE g.records
        current == IF g.pc = "created" THEN 0 ELSE g.current + g.chunk_size
    IN IF current < Len(records)
       THEN [g EXCEPT !.pc = "running", !.records = records, !.current = current,
                      !.out = Append(g.out, Slice(records, current, current + g.chunk_size + 1))]
       ELSE [g EXCEPT !.pc = "done", !.records = records, !.current = current]

\* next(g): runs the body from its start or from the last yield up to the
\* next yield (pc "running", the chunk appended to out) or to its end (pc
\* "done", StopIteration).
iter_next(g, d) ==
    LET records == IF g.pc = "created" THEN dict_values(d) ELSE g.records
        current == IF g.pc = "created" THEN 0 ELSE g.current + g.chunk_size
    IN IF current < Len(records)
       THEN [g EXCEPT !.pc = "running", !.records = records, !.current = current,
                      !.out = Append(g.out, Slice(records, current, current + g.chunk_size))]
       ELSE [g EXCEPT !.pc = "done", !.records = records, !.current = current]

GenCreate(b, chunk_size) ==
    /\ gen' = iter_create(b, chunk_size)
    /\ UNCHANGED <<phoneVars, recVars, bdayVars, data, expected, bookOp, files, saved>>

\* start remembers the mapping the generator's first step found.
GenNext ==
    /\ gen.pc \in {"created", "running"}
    /\ gen' = [iter_next(gen, data[gen.book])
                   EXCEPT !.start = IF gen.pc = "created" THEN data[gen.book] ELSE gen.start]
    /\ UNCHANGED <<phoneVars, recVars, bdayVars, data, expected, bookOp, files, saved>>

\* add_record, delete and add_phone on a record of a book, between the
\* calls that bookOp records.
QuietAddRecord(b, record) ==
    /\ data' = [data EXCEPT ![b] = add_record(data[b], record)]
    /\ bookOp' = NoBookCall
    /\ UNCHANGED <<phoneVars, recVars, bdayVars, expected, gen, files, saved>>

QuietDelete(b, name) ==
    /\ data' = [data EXCEPT ![b] = delete(data[b], name).data]
    /\ bookOp' = NoBookCall
    /\ UNCHANGED <<phoneVars, recVars, bdayVars, expected, gen, files, saved>>

\* book.find(name).add_phone(p)
QuietAddPhone(b, name, p) ==
    /\ find(data[b], name) # None
    /\ LET r == find(data[b], name)[1] IN
       /\ Len(r.phones) < MaxPhones
       /\ data' = [data EXCEPT ![b][KeyIndex(data[b], name)].value.phones =
                                   add_phone(r.phones, p).phones]
    /\ bookOp' = NoBookCall
    /\ UNCHANGED <<phoneVars, recVars, bdayVars, expected, gen, files, saved>>

IterNames == {[i \in 1..n |-> "n"] : n \in 1..MaxIterNames}
IterRecords == {Record(n, <<>>, None) : n \in IterNames}
ChunkSizes == (1..MaxChunk) \cup {DefaultChunk}

(***************************************************************************)
(* AddressBook.save_to_file / load_from_file                               *)
(***************************************************************************)
FileNames == {"book.bin", "backup.bin"}

Tok(t, n, s) == [t |-> t, n |-> n, s |-> s]

RECURSIVE Flatten(_)
Flatten(ss) == IF ss = <<>> THEN <<>> ELSE Head(ss) \o Flatten(Tail(ss))

\* pickle.dump: the object graph as a stream of tokens, each container
\* preceded by its size.
pickle_record(r) ==
    <<Tok("RECORD", 0, <<>>), Tok("STR", 0, r.name), Tok("LIST", Len(r.phones), <<>>)>>
    \o [i \in 1..Len(r.phones) |-> Tok("STR", 0, r.phones[i])]
    \o <<IF r.birthday = None THEN Tok("NONE", 0, <<>>) ELSE Tok("STR", 0, r.birthday[1])>>

pickle_dumps(d) ==
    <<Tok("DICT", Len(d), <<>>)>>
    \o Flatten([i \in 1..Len(d) |-> <<Tok("STR", 0, d[i].key)>> \o pickle_record(d[i].value)])

\* pickle.load: the record whose tokens start at pos, and where they end.
unpickle_record(bytes, pos) ==
    LET n == bytes[pos + 2].n
        b == bytes[pos + 3 + n]
    IN [value |-> Record(bytes[pos + 1].s,
                         [i \in 1..n |-> bytes[pos + 2 + i].s],
                         IF b.t = "NONE" THEN None ELSE Some(b.s)),
        pos |-> pos + 4 + n]

RECURSIVE unpickle_entries(_, _, _)
unpickle_entries(bytes, pos, count) ==
    IF count = 0 THEN <<>>
    ELSE LET r == unpickle_record(bytes, pos + 1) IN
         <<[key |-> bytes[pos].s, value |-> r.value]>>
         \o unpickle_entries(bytes, r.pos, count - 1)

pickle_loads(bytes) == unpickle_entries(bytes, 2, bytes[1].n)

FileNotFoundError == [kind |-> "FileNotFoundError", fmt |-> "No such file or directory",
                      arg |-> <<>>]

\* open(file_name, 'wb') and pickle.dump: the file's bytes are replaced.
save_to_file(d, fs, file_name) == [fs EXCEPT ![file_name] = Some(pickle_dumps(d))]

load_from_file_Merging(d, fs, file_name) ==
    IF fs[file_name] = None THEN [data |-> d, exc |-> Some(FileNotFoundError)]
    ELSE LET loaded == pickle_loads(fs[file_name][1])
             kept == SelectSeq(d, LAMBDA e : KeyIndex(loaded, e.key) = 0)
         IN [data |-> kept \o loaded, exc |-> None]

\* open(file_name, 'rb') and pickle.load: self.data is replaced.
load_from_file(d, fs, file_name) ==
    IF fs[file_name] = None THEN [data |-> d, exc |-> Some(FileNotFoundError)]
    ELSE [data |-> pickle_loads(fs[file_name][1]), exc |-> None]

BookSave(b, file_name) ==
    /\ files' = save_to_file(data[b], files, file_name)
    /\ saved' = [saved EXCEPT ![file_name] = Some(data[b])]
    /\ bookOp' = [op |-> "save_to_file", book |-> b, arg |-> file_name, pre |-> data[b],
                  result |-> <<>>, exc |-> None]
    /\ UNCHANGED <<phoneVars, recVars, bdayVars, data, expected, gen>>

BookLoad(b, file_name) ==
    LET r == load_from_file(data[b], files, file_name) IN
    /\ data' = [data EXCEPT ![b] = r.data]
    /\ bookOp' = [op |-> "load_from_file", book |-> b, arg |-> file_name, pre |-> data[b],
                  result |-> <<>>, exc |-> r.exc]
    /\ UNCHANGED <<phoneVars, recVars, bdayVars, expected, gen, files, saved>>

PersistRecords ==
    {Record(John, <<Phone1>>, None),
     Record(Amy, <<>>, Some(FormatDate(2000, 2, 29)))}

(***************************************************************************)
(* Specifications                                                          *)
(***************************************************************************)
Init ==
    /\ phone = None
    /\ phoneOp = NoCall
    /\ phones = <<>>
    /\ recOp = NoRecCall
    /\ today = Date(BaseYear, 1, 1)
    /\ birthday = None
    /\ dtbOp = NoDtbCall
    /\ data = [b \in Books |-> <<>>]
    /\ expected = [b \in Books |-> [n \in BookNames |-> None]]
    /\ bookOp = NoBookCall
    /\ gen = NoGen
    /\ files = [f \in FileNames |-> None]
    /\ saved = [f \in FileNames |-> None]

NextPhone ==
    \/ \E v \in PhoneInputs : PhoneConstruct(v)
    \/ \E v \in PhoneInputs : PhoneSetValue(v)
    \/ \E v \in PhoneInputs : PhoneAssignValue(v)

SpecPhone == Init /\ [][NextPhone]_vars

NextRecord ==
    \/ \E p \in PhoneInputs : RecAddPhone(p)
    \/ \E p \in PhoneInputs : RecRemovePhone(p)
    \/ \E o, n \in PhoneInputs : RecEditPhone(o, n)

SpecRecord == Init /\ [][NextRecord]_vars

NextBirthday ==
    \/ \E b \in BirthdayInputs : RecordConstruct(b)
    \/ RecDaysToBirthday
    \/ Tick

SpecBirthday == Init /\ [][NextBirthday]_vars

NextBook ==
    \/ \E r \in BookRecords : BookAddRecord("A", r)
    \/ \E n \in BookNames : BookFind("A", n)
    \/ \E n \in BookNames : BookDelete("A", n)
    \/ \E t \in SearchTerms : BookSearch("A", t)

SpecBook == Init /\ [][NextBook]_vars

NextIter ==
    \/ \E r \in IterRecords : QuietAddRecord("A", r)
    \/ \E n \in IterNames : QuietDelete("A", n)
    \/ \E k \in ChunkSizes : GenCreate("A", k)
    \/ GenNext

SpecIter == Init /\ [][NextIter]_vars

NextPersist ==
    \/ \E b \in Books, r \in PersistRecords : QuietAddRecord(b, r)
    \/ \E b \in Books, n \in {John, Amy} : QuietDelete(b, n)
    \/ \E b \in Books : QuietAddPhone(b, John, Phone2)
    \/ \E b \in Books, f \in FileNames : BookSave(b, f)
    \/ \E b \in Books, f \in FileNames : BookLoad(b, f)

SpecPersist == Init /\ [][NextPersist]_vars

(***************************************************************************)
(* Claims                                                                  *)
(***************************************************************************)
\* The Phone format rule: exactly ten characters, each one of 0-9.
TenDecimalDigits(s) == Len(s) = 10 /\ \A i \in 1..Len(s) : s[i] \in AsciiDigits

\* C1: after any sequence of add_phone, remove_phone and edit_phone calls,
\* every element of the record's phones is exactly ten decimal digits.
C1_PhonesAreTenDecimalDigits ==
    \A i \in 1..Len(phones) : TenDecimalDigits(phones[i])

\* C2: edit_phone(old, new) on a record containing old replaces the first
\* phone equal to old in place when new is a valid phone number, and fails
\* with the validation error, leaving phones as they were, when it is not.
C2_EditReplacesInPlaceIffValid ==
    (recOp.op = "edit_phone" /\ \E i \in 1..Len(recOp.pre) : recOp.pre[i] = recOp.a1) =>
        \E i \in 1..Len(recOp.pre) :
            /\ recOp.pre[i] = recOp.a1
            /\ \A j \in 1..(i - 1) : recOp.pre[j] # recOp.a1
            /\ IF TenDecimalDigits(recOp.a2)
               THEN /\ recOp.exc = None
                    /\ Len(phones) = Len(recOp.pre)
                    /\ phones[i] = recOp.a2
                    /\ \A j \in 1..Len(phones) : j # i => phones[j] = recOp.pre[j]
               ELSE /\ recOp.exc = Some(PhoneFormatError)
                    /\ phones = recOp.pre

\* C7: constructing a Phone and every later assignment of its value succeeds
\* iff the string is exactly ten decimal digits 0-9; otherwise it fails with
\* "Phone number must contain 10 digits." and the stored value is unchanged.
C7_PhoneAssignmentIffTenDigits ==
    phoneOp.op # "none" =>
        IF TenDecimalDigits(phoneOp.arg)
        THEN phoneOp.exc = None /\ phone = Some(phoneOp.arg)
        ELSE phoneOp.exc = Some(PhoneFormatError) /\ phone = phoneOp.pre

EditOfMissingPhone ==
    recOp.op = "edit_phone" /\ \A i \in 1..Len(recOp.pre) : recOp.pre[i] # recOp.a1

\* C10 as stated: edit_phone(old, new) with old equal to none of the phones
\* fails with the not-found error, of a kind other than the validation
\* error's, and the phones are unchanged.
C10_NotFoundIsAnotherKind ==
    EditOfMissingPhone =>
        /\ recOp.exc = Some(PhoneNotFoundError(recOp.a1))
        /\ recOp.exc[1].kind # PhoneFormatError.kind
        /\ phones = recOp.pre

\* C10 amended: edit_phone(old, new) with old equal to none of the phones
\* fails with a ValueError, the kind the validation error has too, whose
\* message "Phone number '<old>' does not exist in this record." alone
\* tells it from the validation error, and the phones are unchanged.
C10_NotFoundIsValueErrorWithOwnMessage ==
    EditOfMissingPhone =>
        /\ recOp.exc = Some(PhoneNotFoundError(recOp.a1))
        /\ recOp.exc[1].kind = "ValueError"
        /\ recOp.exc[1].kind = PhoneFormatError.kind
        /\ recOp.exc[1].fmt # PhoneFormatError.fmt
        /\ phones = recOp.pre

\* An edit of a missing phone, with a malformed new value, on a record
\* that holds phones.
C10_Witness ==
    /\ EditOfMissingPhone
    /\ Len(recOp.pre) = 2
    /\ ~TenDecimalDigits(recOp.a2)
    /\ recOp.exc # None

\* C6: days_to_birthday returns 0 when today's (month, day) is the
\* birthday's, a positive integer below 366 otherwise, and None when the
\* record has no birthday.
C6_DaysToBirthdayRange ==
    dtbOp.op = "days_to_birthday" =>
        /\ dtbOp.exc = None
        /\ IF birthday = None THEN dtbOp.ret = None
           ELSE LET b == strptime(birthday[1])[1] IN
                /\ dtbOp.ret # None
                /\ IF today.month = b.month /\ today.day = b.day
                   THEN dtbOp.ret[1] = 0
                   ELSE dtbOp.ret[1] > 0 /\ dtbOp.ret[1] < 366


\* C3: each record appears at most once in the list search(term) returns.
C3_SearchReturnsEachRecordOnce ==
    bookOp.op = "search" =>
        \A i, j \in 1..Len(bookOp.result) :
            i # j => bookOp.result[i] # bookOp.result[j]

\* sub occurs in s, letters compared as they are.
Occurs(sub, s) ==
    \E a \in 1..(Len(s) + 1) :
        a + Len(sub) - 1 <= Len(s) /\ SubSeq(s, a, a + Len(sub) - 1) = sub

\* sub occurs in s, letters compared without regard to case.
OccursAnyCase(sub, s) ==
    \E a \in 1..(Len(s) + 1) :
        /\ a + Len(sub) - 1 <= Len(s)
        /\ \A j \in 1..Len(sub) : LowerChar(s[a + j - 1]) = LowerChar(sub[j])

TermMatches(term, r) ==
    OccursAnyCase(term, r.name) \/ \E i \in 1..Len(r.phones) : Occurs(term, r.phones[i])

\* C4: the records search(term) returns are exactly the records of the book
\* whose name holds term case-insensitively or one of whose phones holds
\* term case-sensitively, and they come in the book's insertion order.
C4_SearchReturnsExactlyTheMatches ==
    bookOp.op = "search" =>
        LET d == data[bookOp.book]
            res == bookOp.result
        IN /\ {res[i] : i \in 1..Len(res)}
                = {d[i].value : i \in {k \in 1..Len(d) : TermMatches(bookOp.arg, d[k].value)}}
           /\ \A i, j \in 1..Len(res) :
                  i < j => KeyIndex(d, res[i].name) <= KeyIndex(d, res[j].name)

\* A search of a book of three records that returns two different records,
\* one of them found by its name in another case, and leaves one out.
C4_Witness ==
    /\ bookOp.op = "search"
    /\ Len(data[bookOp.book]) = 3
    /\ Cardinality({bookOp.result[i] : i \in 1..Len(bookOp.result)}) = 2
    /\ \E i \in 1..Len(bookOp.result) :
           /\ ~Occurs(bookOp.arg, bookOp.result[i].name)
           /\ \A k \in 1..Len(bookOp.result[i].phones) :
                  ~Occurs(bookOp.arg, bookOp.result[i].phones[k])

\* C8: find(n) returns the record most recently added under n and not
\* deleted since, None otherwise; a second record added under a name
\* replaces the first; deleting an absent name raises nothing and leaves
\* the mapping unchanged.
C8_FindReturnsLastAdded ==
    /\ \A n \in BookNames : find(data["A"], n) = expected["A"][n]
    /\ (bookOp.op = "delete" /\ \A i \in 1..Len(bookOp.pre) : bookOp.pre[i].key # bookOp.arg)
           => (bookOp.exc = None /\ data[bookOp.book] = bookOp.pre)

\* A record has just been added under a name that held another record.
C8_Witness ==
    /\ bookOp.op = "add_record"
    /\ \E i \in 1..Len(bookOp.pre) :
           bookOp.pre[i].key = bookOp.arg.name /\ bookOp.pre[i].value # bookOp.arg
    /\ find(data["A"], bookOp.arg.name) = Some(bookOp.arg)
    /\ Len(data["A"]) = Len(bookOp.pre)

\* C5: chunked iteration over a book of n records with chunk size k >= 1
\* ends after exactly ceil(n/k) groups; every group but the last has k
\* records, the last has between 1 and k, and the groups concatenated are
\* the book's records, each once, in insertion order (none for an empty book).
C5_ChunksCoverTheBookInOrder ==
    gen.pc \in {"running", "done"} =>
        LET n == Len(gen.start)
            k == gen.chunk_size
            groups == gen.out
            ceil == (n + k - 1) \div k
        IN /\ k >= 1
           /\ Len(groups) <= ceil
           /\ \A i \in 1..Len(groups) : i < ceil => Len(groups[i]) = k
           /\ gen.pc = "done" =>
                  /\ Len(groups) = ceil
                  /\ n > 0 => Len(groups[ceil]) \in 1..k
                  /\ Flatten(groups) = [i \in 1..n |-> gen.start[i].value]

\* An iteration has ended after several groups, the last one short, over a
\* book that was changed while it ran.
C5_Witness ==
    /\ gen.pc = "done"
    /\ Len(gen.out) >= 2
    /\ Len(gen.out[Len(gen.out)]) < gen.chunk_size
    /\ data[gen.book] # gen.start

\* C9: load_from_file of a file written by save_to_file gives a mapping
\* equivalent to the one saved (same names, same phones per record in the
\* same order, same birthdays), whatever was done to the saving book since;
\* every record the loading book held that is not in the file is gone.
C9_LoadReproducesTheSavedMapping ==
    (bookOp.op = "load_from_file" /\ bookOp.exc = None) =>
        /\ saved[bookOp.arg] # None
        /\ LET loaded == data[bookOp.book]
               orig == saved[bookOp.arg][1]
               names(d) == {d[i].key : i \in 1..Len(d)}
           IN /\ names(loaded) = names(orig)
              /\ Len(loaded) = Len(orig)
              /\ \A i \in 1..Len(orig) :
                     \E j \in 1..Len(loaded) :
                         /\ loaded[j].key = orig[i].key
                         /\ loaded[j].value.name = orig[i].value.name
                         /\ loaded[j].value.phones = orig[i].value.phones
                         /\ loaded[j].value.birthday = orig[i].value.birthday
              /\ \A i \in 1..Len(bookOp.pre) :
                     bookOp.pre[i].key \notin names(orig)
                         => bookOp.pre[i].key \notin names(loaded)

\* A fresh book has loaded two records, one with two phones and one with a
\* birthday, from a file whose saving book has changed since the save.
C9_Witness ==
    /\ bookOp.op = "load_from_file" /\ bookOp.exc = None
    /\ bookOp.pre = <<>>
    /\ Len(data[bookOp.book]) = 2
    /\ \E i \in 1..2 : Len(data[bookOp.book][i].value.phones) = 2
    /\ \E i \in 1..2 : data[bookOp.book][i].value.birthday # None
    /\ \A b \in Books \ {bookOp.book} : data[b] # data[bookOp.book] /\ data[b] # <<>>

====
